---------------------------- MODULE Spec2Model ----------------------------
(***************************************************************************)
(* KineticParticle-App: the App component (gesture classifier, voice tool  *)
(* calls, session lifecycle) and the ParticleScene frame pass.             *)
(*                                                                         *)
(* Lengths are in hundredths of the normalized landmark space, sizes and   *)
(* speeds in tenths (size 1.0 is 10, speed 1 is 10).                       *)
(***************************************************************************)
EXTENDS Integers, Sequences, FiniteSets, TLC

(* ------------------------------ bounds -------------------------------- *)

\* connectToGemini invocations in one run
MaxSessions == 2
\* function calls received over all tool-call messages of one run
MaxCalls == 2
\* React state updates waiting for the next render
MaxPending == 2
\* inbound audio chunks of one run
MaxChunks == 3
\* the last reading of an audio context's clock in one run, in chunk units
MaxAudioTime == 3

\* Microphone chunks of different histories in a run.
MaxMicChunks == 3

(* --------------------------- JavaScript values ------------------------ *)

Undefined == <<"undefined">>
Str(s) == <<"string", s>>
Num(n) == <<"number", n>>

(* ------------------------------ landmarks ----------------------------- *)

\* 0.05 in hundredths: the pinch threshold of analyzeGesture
PinchThreshold == 5

Point(px, py) == [x |-> px, y |-> py]

\* A fingertip above (y 30) or below (y 70) its base knuckle (y 50).
TipY(up) == IF up THEN 30 ELSE 70

\* Offsets of the thumb tip from the index tip: at distance sqrt(18) < 5
\* (a pinch) and at distance exactly 5 (not a pinch).
ThumbOffsets == {<<3, 3>>, <<3, 4>>}

\* A hand of n landmarks; landmark i of the code is element i + 1.
Hand(off, iUp, mUp, rUp, pUp, n) ==
    [j \in 1..n |->
        CASE j = 5  -> Point(50 + off[1], TipY(iUp) + off[2])
          [] j = 9  -> Point(50, TipY(iUp))
          [] j = 13 -> Point(50, TipY(mUp))
          [] j = 17 -> Point(50, TipY(rUp))
          [] j = 21 -> Point(50, TipY(pUp))
          [] OTHER  -> Point(50, 50)]

FullHands ==
    {Hand(off, i, m, r, p, 21) :
        off \in ThumbOffsets, i \in BOOLEAN, m \in BOOLEAN,
        r \in BOOLEAN, p \in BOOLEAN}

\* Hands with fewer than 21 landmarks: index 20 missing, indices 4..20 missing.
ShortHands == {Hand(<<3, 4>>, TRUE, TRUE, FALSE, FALSE, n) : n \in {20, 4}}

\* results.landmarks of detectForVideo: zero hands or one hand (numHands: 1).
Detections == {<<>>} \cup {<<h>> : h \in FullHands \cup ShortHands}

\* The detections of the session runs: no hand, a hand of 20 landmarks, and
\* one hand for each branch of analyzeGesture.
SessionDetections ==
    {<<>>, <<Hand(<<3, 4>>, TRUE, TRUE, FALSE, FALSE, 20)>>}
    \cup {<<Hand(<<3, 3>>, FALSE, FALSE, FALSE, FALSE, 21)>>,
          <<Hand(<<3, 4>>, FALSE, FALSE, FALSE, FALSE, 21)>>,
          <<Hand(<<3, 4>>, TRUE, TRUE, FALSE, FALSE, 21)>>,
          <<Hand(<<3, 4>>, TRUE, FALSE, FALSE, FALSE, 21)>>,
          <<Hand(<<3, 4>>, TRUE, TRUE, TRUE, TRUE, 21)>>,
          <<Hand(<<3, 4>>, FALSE, TRUE, TRUE, FALSE, 21)>>}

\* landmarks[i], for an index the hand has
Lm(landmarks, i) == landmarks[i + 1]

\* The indices analyzeGesture reads a coordinate of.
ReferencedIdx == {4, 5, 8, 9, 12, 13, 16, 17, 20}

\* landmarks[i] is undefined past the end of the array, and reading .x or .y
\* of undefined raises a TypeError.
AnalyzeThrows(landmarks) == \E i \in ReferencedIdx : i + 1 > Len(landmarks)

isIndexUp(landmarks) == Lm(landmarks, 8).y < Lm(landmarks, 5).y
isMiddleUp(landmarks) == Lm(landmarks, 12).y < Lm(landmarks, 9).y
isRingUp(landmarks) == Lm(landmarks, 16).y < Lm(landmarks, 13).y
isPinkyUp(landmarks) == Lm(landmarks, 20).y < Lm(landmarks, 17).y

Sq(v) == v * v

\* pinchDist squared; pinchDist < 0.05 iff pinchDistSq < 0.05^2.
pinchDistSq(landmarks) ==
    Sq(Lm(landmarks, 4).x - Lm(landmarks, 8).x) + Sq(Lm(landmarks, 4).y - Lm(landmarks, 8).y)

isPinch(landmarks) == pinchDistSq(landmarks) < Sq(PinchThreshold)

N_PINCH == "PINCH (Resize)"
N_FIST == "FIST (Gather)"
N_PEACE == "PEACE (Rain)"
N_POINT == "POINT (Swirl)"
N_OPEN == "OPEN PALM (Explode)"
N_NEUTRAL == "NEUTRAL (Float)"

GestureNames == {N_PINCH, N_FIST, N_PEACE, N_POINT, N_OPEN, N_NEUTRAL}

Modes == {"FLOAT", "GATHER", "SWIRL", "EXPLODE", "RAIN"}

\* The chain with the FIST test moved before the pinch test.
FistFirstBranch(landmarks) ==
    LET i == isIndexUp(landmarks)
        m == isMiddleUp(landmarks)
        r == isRingUp(landmarks)
        p == isPinkyUp(landmarks)
    IN  IF ~i /\ ~m /\ ~r /\ ~p THEN N_FIST
        ELSE IF isPinch(landmarks) THEN N_PINCH
        ELSE IF i /\ m /\ ~r /\ ~p THEN N_PEACE
        ELSE IF i /\ ~m /\ ~r /\ ~p THEN N_POINT
        ELSE IF i /\ m /\ r /\ p THEN N_OPEN
        ELSE N_NEUTRAL

\* The if / else-if chain of analyzeGesture: the branch taken (detectedName).
GestureBranch(landmarks) ==
    LET i == isIndexUp(landmarks)
        m == isMiddleUp(landmarks)
        r == isRingUp(landmarks)
        p == isPinkyUp(landmarks)
    IN  IF isPinch(landmarks) THEN N_PINCH
        ELSE IF ~i /\ ~m /\ ~r /\ ~p THEN N_FIST
        ELSE IF i /\ m /\ ~r /\ ~p THEN N_PEACE
        ELSE IF i /\ ~m /\ ~r /\ ~p THEN N_POINT
        ELSE IF i /\ m /\ r /\ p THEN N_OPEN
        ELSE N_NEUTRAL

\* detectedMode of the branch; PINCH keeps the mode analyzeGesture read.
BranchMode(name, readMode) ==
    CASE name = N_FIST -> "GATHER"
      [] name = N_PEACE -> "RAIN"
      [] name = N_POINT -> "SWIRL"
      [] name = N_OPEN -> "EXPLODE"
      [] name = N_NEUTRAL -> "FLOAT"
      [] OTHER -> readMode


(* ------------------------------ state --------------------------------- *)

VARIABLES
    config,          \* useState config, as of the last render
    configQueue,     \* setConfig updaters not yet rendered, oldest first
    currentGesture,  \* useState currentGesture, as of the last render
    gestureQueue,    \* <<v>> after setCurrentGesture(v), until the render
    active,          \* useState active, as of the last render
    activeQueue,     \* <<v>> after setActive(v), until the render
    visionReady,     \* handLandmarkerRef is set and visionReady is true
    mounted,         \* the App component is mounted
    nextSession,     \* connectToGemini invocations so far
    closure,         \* per invocation: the state its closures captured
    conn,            \* per invocation: where its connection stands
    sessionRef,      \* sessionRef.current: 0 is null, k the promise of invocation k
    streamRef,       \* streamRef.current: 0 is null, k the stream of invocation k
    liveStreams,     \* captured streams whose tracks are not stopped
    videoSrc,        \* videoRef.current.srcObject: 0 is null
    playPending,     \* invocations whose video play() promise is pending
    loops,           \* invocations whose predictWebcam is scheduled on a frame
    requestRef,      \* requestRef.current: the invocation that scheduled last, 0 unset
    results,         \* results.landmarks of the last detectForVideo
    detectedName,    \* detectedName of the last analyzeGesture
    thrown,          \* handlers that have raised an uncaught error
    toolCall,        \* functionCalls of the last tool-call message handled
    nextCallId,      \* the id of the next function call received
    acks,            \* per call id: the responses sent for it (session, status)
    receivedActive,  \* call ids received while sessionRef was set
    particles,       \* ParticleScene: the particle data of useMemo
    dummy,           \* the shared scratch Object3D
    matrices,        \* the instance matrices written by setMatrixAt
    time,            \* state.clock.getElapsedTime(), in tenths of a second
    frameMode,       \* mode of the last useFrame pass, "" before the first
    outputAudioCtxRef, \* outputAudioCtxRef.current: 0 is null, k the context of invocation k
    ctxState,        \* per output AudioContext: "none", "running", "closing", "closed"
    ctxTime,         \* per output AudioContext: currentTime
    nextStartTimeRef, \* nextStartTimeRef.current, the playback cursor
    chunks,          \* inbound audio chunks in arrival order, each with its playback
    sourcesRef,      \* sourcesRef.current: the chunks whose source is in the set
    isMicOn,         \* useState isMicOn, as rendered
    isMicOnRef,      \* isMicOnRef.current
    inputAudioCtxRef, \* inputAudioCtxRef.current: 0 is null, k the context of invocation k
    inCtxState,      \* per input AudioContext: "none", "running", "closing", "closed"
    processorRef,    \* processorRef.current: 0 is null, k the processor of invocation k
    processors,      \* the connected script processors, each with its context
    micTimers,       \* invocations whose setTimeout(startAudioProcessing) is pending
    micChunks        \* the microphone chunks captured, each with what became of it

reactVars == <<config, configQueue, currentGesture, gestureQueue, active, activeQueue>>
sessionVars == <<nextSession, closure, conn, sessionRef, streamRef, liveStreams, videoSrc, playPending>>
loopVars == <<loops, requestRef, results, detectedName>>
voiceVars == <<toolCall, nextCallId, acks, receivedActive>>
frameVars == <<particles, dummy, matrices, time, frameMode>>
audioRest == <<outputAudioCtxRef, ctxTime, nextStartTimeRef, chunks, sourcesRef>>
audioVars == <<ctxState, audioRest>>
micRest == <<isMicOn, isMicOnRef, inputAudioCtxRef, micTimers, micChunks>>
micVars == <<inCtxState, processorRef, processors, micRest>>

Sessions == 1..MaxSessions
CallIds == 1..MaxCalls

\* useState<ParticleConfig>({...})
InitialConfig ==
    [mode |-> "FLOAT", color |-> Str("#00ffff"), speed |-> Num(10), count |-> 2000, size |-> 10]

(* --------------------------- React updates ---------------------------- *)

\* setConfig(prev => ({ ...prev, [field]: value })); throws marks an updater
\* whose body raises when React runs it.
Update(f, v) == [field |-> f, value |-> v, throws |-> FALSE]
ThrowingUpdate(f) == [field |-> f, value |-> Undefined, throws |-> TRUE]

\* An updater that spreads the initial config instead of prev.
ApplyOnInitial(prev, u) == [InitialConfig EXCEPT ![u.field] = u.value]

\* Running one updater on the state before it.
ApplyUpdate(prev, u) == [prev EXCEPT ![u.field] = u.value]

RECURSIVE ApplyAll(_, _)
\* React runs the queued updaters in the order they were queued.
ApplyAll(prev, queue) ==
    IF queue = <<>> THEN prev
    ELSE ApplyAll(ApplyUpdate(prev, Head(queue)), Tail(queue))

QueueThrows(queue) == \E i \in 1..Len(queue) : queue[i].throws

(* ----------------------------- stopSession ---------------------------- *)

\* stopSession, on the references it clears. Assigning srcObject restarts the
\* media element's load, which rejects a pending play() promise.
\* close() of the output context settles later; the reference to the context,
\* the playback cursor and the set of sources are left as they are. The
\* script processor in processorRef is disconnected, and close() is called on
\* the input context as well.
StopRefs ==
    /\ sessionRef' = 0
    /\ loops' = loops \ {requestRef}
    /\ liveStreams' = liveStreams \ {streamRef}
    /\ streamRef' = 0
    /\ videoSrc' = 0
    /\ playPending' = {}
    /\ ctxState' = [k \in Sessions |->
                        IF k = outputAudioCtxRef /\ ctxState[k] = "running"
                        THEN "closing" ELSE ctxState[k]]
    /\ UNCHANGED audioRest
    /\ processorRef' = 0
    /\ processors' = {p \in processors : p.id # processorRef}
    /\ inCtxState' = [k \in Sessions |->
                          IF k = inputAudioCtxRef /\ inCtxState[k] = "running"
                          THEN "closing" ELSE inCtxState[k]]
    /\ UNCHANGED micRest

\* A stopSession that flips active instead of clearing it.
stopSessionTogglesActive ==
    /\ StopRefs
    /\ activeQueue' = <<~active>>

stopSession ==
    /\ StopRefs
    /\ activeQueue' = <<FALSE>>

(* ------------------------------- render ------------------------------- *)

\* React renders App with the queued updates. An updater that throws fails the
\* render; with no error boundary React unmounts the root, which runs the
\* effect cleanup (stopSession, cancelAnimationFrame).
Render ==
    /\ mounted
    /\ configQueue # <<>> \/ gestureQueue # <<>> \/ activeQueue # <<>>
    /\ IF QueueThrows(configQueue)
       THEN /\ mounted' = FALSE
            /\ thrown' = thrown \cup {"render"}
            /\ StopRefs
            /\ UNCHANGED <<config, currentGesture, active>>
       ELSE /\ config' = ApplyAll(config, configQueue)
            /\ currentGesture' = IF gestureQueue # <<>> THEN gestureQueue[1] ELSE currentGesture
            /\ active' = IF activeQueue # <<>> THEN activeQueue[1] ELSE active
            /\ UNCHANGED <<mounted, thrown, sessionRef, loops, liveStreams, streamRef,
                           videoSrc, playPending, audioVars, micVars>>
    /\ configQueue' = <<>>
    /\ gestureQueue' = <<>>
    /\ activeQueue' = <<>>
    /\ UNCHANGED <<visionReady, nextSession, closure, conn, requestRef, results,
                   detectedName, voiceVars>>
    /\ UNCHANGED frameVars

(* ------------------------------ session ------------------------------ *)

\* initVision resolved: handLandmarkerRef.current is set, setVisionReady(true).
InitVision ==
    /\ mounted /\ ~visionReady
    /\ visionReady' = TRUE
    /\ UNCHANGED <<reactVars, mounted, sessionVars, loopVars, thrown, voiceVars>>
    /\ UNCHANGED <<frameVars, audioVars, micVars>>

\* connectToGemini up to its first await: the new audio contexts replace the
\* references to the ones before. The button is rendered while
\* active is false and enabled once visionReady; the closures of this
\* invocation (predictWebcam, analyzeGesture, the session callbacks) keep the
\* state of the render the click came from.
ConnectStart ==
    /\ mounted /\ ~active /\ visionReady
    /\ nextSession < MaxSessions
    /\ nextSession' = nextSession + 1
    /\ closure' = [closure EXCEPT ![nextSession + 1] =
                      [mode |-> config.mode, currentGesture |-> currentGesture,
                       active |-> active]]
    /\ conn' = [conn EXCEPT ![nextSession + 1] = "media"]
    /\ outputAudioCtxRef' = nextSession + 1
    /\ ctxState' = [ctxState EXCEPT ![nextSession + 1] = "running"]
    /\ ctxTime' = [ctxTime EXCEPT ![nextSession + 1] = 0]
    /\ UNCHANGED <<reactVars, visionReady, mounted, sessionRef, streamRef, liveStreams,
                   videoSrc, playPending, loopVars, thrown, voiceVars>>
    /\ inputAudioCtxRef' = nextSession + 1
    /\ inCtxState' = [inCtxState EXCEPT ![nextSession + 1] = "running"]
    /\ UNCHANGED <<frameVars, nextStartTimeRef, chunks, sourcesRef>>
    /\ UNCHANGED <<isMicOn, isMicOnRef, processorRef, processors, micTimers, micChunks>>

\* getUserMedia resolved: streamRef, video.srcObject and play(), ai.live.connect.
ConnectMedia(k) ==
    /\ mounted /\ conn[k] = "media"
    /\ streamRef' = k
    /\ liveStreams' = liveStreams \cup {k}
    /\ videoSrc' = k
    /\ playPending' = {k}
    /\ sessionRef' = k
    /\ conn' = [conn EXCEPT ![k] = "connecting"]
    /\ UNCHANGED <<reactVars, visionReady, mounted, nextSession, closure, loopVars,
                   thrown, voiceVars>>
    /\ UNCHANGED <<frameVars, audioVars, micVars>>

\* getUserMedia (or resume) rejected: the catch block calls stopSession.
ConnectFail(k) ==
    /\ mounted /\ conn[k] = "media"
    /\ conn' = [conn EXCEPT ![k] = "failed"]
    /\ stopSession
    /\ UNCHANGED <<config, configQueue, currentGesture, gestureQueue, active,
                   visionReady, mounted, nextSession, closure, requestRef, results,
                   detectedName, thrown, voiceVars>>
    /\ UNCHANGED frameVars

\* video.play() resolved: requestRef.current = requestAnimationFrame(predictWebcam).
PlayResolved(k) ==
    /\ mounted /\ k \in playPending
    /\ playPending' = playPending \ {k}
    /\ loops' = loops \cup {k}
    /\ requestRef' = k
    /\ UNCHANGED <<reactVars, visionReady, mounted, nextSession, closure, conn,
                   sessionRef, streamRef, liveStreams, videoSrc, results,
                   detectedName, thrown, voiceVars>>
    /\ UNCHANGED <<frameVars, audioVars, micVars>>

\* callbacks.onopen: setActive(true), setTimeout(startAudioProcessing, 100).
OnOpen(k) ==
    /\ mounted /\ conn[k] = "connecting"
    /\ conn' = [conn EXCEPT ![k] = "open"]
    /\ activeQueue' = <<TRUE>>
    /\ UNCHANGED <<config, configQueue, currentGesture, gestureQueue, active,
                   visionReady, mounted, nextSession, closure, sessionRef, streamRef,
                   liveStreams, videoSrc, playPending, loopVars, thrown, voiceVars>>
    /\ micTimers' = micTimers \cup {k}
    /\ UNCHANGED <<frameVars, audioVars, isMicOn, isMicOnRef, inputAudioCtxRef, inCtxState,
                   processorRef, processors, micChunks>>

\* callbacks.onclose: stopSession. A close may follow an error.
OnClose(k) ==
    /\ mounted /\ conn[k] \in {"connecting", "open", "errored"}
    /\ conn' = [conn EXCEPT ![k] = "closed"]
    /\ stopSession
    /\ UNCHANGED <<config, configQueue, currentGesture, gestureQueue, active,
                   visionReady, mounted, nextSession, closure, requestRef, results,
                   detectedName, thrown, voiceVars>>
    /\ UNCHANGED frameVars

\* callbacks.onerror: stopSession only if the active of the render that
\* connectToGemini was clicked in is true.
OnError(k) ==
    /\ mounted /\ conn[k] \in {"connecting", "open"}
    /\ conn' = [conn EXCEPT ![k] = "errored"]
    /\ IF closure[k].active
       THEN stopSession
       ELSE UNCHANGED <<sessionRef, loops, liveStreams, streamRef, videoSrc, playPending,
                        activeQueue, audioVars, micVars>>
    /\ UNCHANGED <<config, configQueue, currentGesture, gestureQueue, active,
                   visionReady, mounted, nextSession, closure, requestRef, results,
                   detectedName, thrown, voiceVars>>
    /\ UNCHANGED frameVars

(* ----------------------------- microphone ---------------------------- *)

\* Everything but the microphone state.
nonMicVars == <<reactVars, visionReady, mounted, sessionVars, loopVars, thrown, voiceVars,
                frameVars, audioVars>>

\* The timer of onopen of invocation k fires: startAudioProcessing(stream). The
\* timer is not cleared by stopSession or by the unmount.
startAudioProcessing(k) ==
    /\ k \in micTimers
    /\ micTimers' = micTimers \ {k}
    /\ IF inputAudioCtxRef # 0 /\ inCtxState[inputAudioCtxRef] # "closed"
       THEN /\ processors' = processors \cup {[id |-> k, ctx |-> inputAudioCtxRef]}
            /\ processorRef' = k
       ELSE UNCHANGED <<processors, processorRef>>
    /\ UNCHANGED <<isMicOn, isMicOnRef, inputAudioCtxRef, inCtxState, micChunks>>
    /\ UNCHANGED nonMicVars

\* A click on the microphone button: setIsMicOn(prev => !prev), rendered at
\* the end of the click, and the effect that copies isMicOn to isMicOnRef.
toggleMic ==
    /\ mounted
    /\ isMicOn' = ~isMicOn
    /\ isMicOnRef' = ~isMicOn
    /\ UNCHANGED <<inputAudioCtxRef, inCtxState, processorRef, processors, micTimers, micChunks>>
    /\ UNCHANGED nonMicVars

\* A captured chunk: captured is sessionRef.current when onaudioprocess ran,
\* muted whether isMicOn was false then, atSend sessionRef.current when the
\* then-callback ran, target the session sendRealtimeInput was called on.
MicChunk(captured, muted, phase, atSend, target) ==
    [captured |-> captured, muted |-> muted, phase |-> phase, atSend |-> atSend,
     target |-> target]

\* onaudioprocess of a connected processor whose context is not closed. The
\* handler returns at once when the microphone is off or sessionRef is null.
\* The then-callback of a promise that is already resolved runs before any
\* other handler; otherwise it waits for the connection.
onaudioprocess(p) ==
    /\ p \in processors
    /\ inCtxState[p.ctx] \in {"running", "closing"}
    /\ Cardinality(micChunks) < MaxMicChunks
    /\ micChunks' = micChunks \cup
            {IF ~isMicOnRef \/ sessionRef = 0
             THEN MicChunk(sessionRef, ~isMicOn, "skipped", 0, 0)
             ELSE IF conn[sessionRef] = "open"
             THEN MicChunk(sessionRef, ~isMicOn, "sent", sessionRef, sessionRef)
             ELSE MicChunk(sessionRef, ~isMicOn, "pending", 0, 0)}
    /\ UNCHANGED <<isMicOn, isMicOnRef, inputAudioCtxRef, inCtxState, processorRef, processors,
                   micTimers>>
    /\ UNCHANGED nonMicVars

\* A then-callback that sends without comparing sessionRef.current.
MicSendUnchecked(c) ==
    /\ c \in micChunks
    /\ c.phase = "pending"
    /\ conn[c.captured] # "connecting"
    /\ micChunks' = (micChunks \ {c}) \cup
            {IF conn[c.captured] = "open"
             THEN MicChunk(c.captured, c.muted, "sent", sessionRef, c.captured)
             ELSE MicChunk(c.captured, c.muted, "dropped", sessionRef, 0)}
    /\ UNCHANGED <<isMicOn, isMicOnRef, inputAudioCtxRef, inCtxState, processorRef, processors,
                   micTimers>>
    /\ UNCHANGED nonMicVars

\* The session promise of chunk c has settled. Resolved: the then-callback
\* sends the chunk if sessionRef.current is still the promise it captured.
\* Rejected (the connection never opened): the catch swallows it.
MicSend(c) ==
    /\ c \in micChunks
    /\ c.phase = "pending"
    /\ conn[c.captured] # "connecting"
    /\ micChunks' = (micChunks \ {c}) \cup
            {IF conn[c.captured] = "open" /\ sessionRef = c.captured
             THEN MicChunk(c.captured, c.muted, "sent", sessionRef, c.captured)
             ELSE MicChunk(c.captured, c.muted, "dropped", sessionRef, 0)}
    /\ UNCHANGED <<isMicOn, isMicOnRef, inputAudioCtxRef, inCtxState, processorRef, processors,
                   micTimers>>
    /\ UNCHANGED nonMicVars

\* close() of input context k has settled.
InputCloseSettled(k) ==
    /\ inCtxState[k] = "closing"
    /\ inCtxState' = [inCtxState EXCEPT ![k] = "closed"]
    /\ UNCHANGED <<processorRef, processors, micRest>>
    /\ UNCHANGED nonMicVars

\* The cleanup of the mount effect: stopSession, then cancelAnimationFrame of
\* the frame id stopSession has cancelled already.
Unmount ==
    /\ mounted
    /\ mounted' = FALSE
    /\ stopSession
    /\ UNCHANGED <<config, configQueue, currentGesture, gestureQueue, active,
                   visionReady, nextSession, closure, conn, requestRef, results,
                   detectedName, thrown, voiceVars>>
    /\ UNCHANGED frameVars

(* --------------------------- gesture loop ----------------------------- *)

\* An analyzeGesture whose FIST branch resets the size as OPEN_PALM does.
SizeResetOnFist(name, readMode) ==
    (IF name = N_PINCH THEN <<Update("size", 5)>>
     ELSE IF name \in {N_OPEN, N_FIST} THEN <<Update("size", 10)>>
     ELSE <<>>)
    \o (IF BranchMode(name, readMode) # readMode
        THEN <<Update("mode", BranchMode(name, readMode))>>
        ELSE <<>>)

\* The setConfig calls of analyzeGesture run with the mode its closure holds.
ConfigWrites(name, readMode) ==
    (IF name = N_PINCH THEN <<Update("size", 5)>>
     ELSE IF name = N_OPEN THEN <<Update("size", 10)>>
     ELSE <<>>)
    \o (IF BranchMode(name, readMode) # readMode
        THEN <<Update("mode", BranchMode(name, readMode))>>
        ELSE <<>>)

\* Whether analyzeGesture calls setCurrentGesture(detectedName).
WritesGesture(name, readMode, readGesture) ==
    BranchMode(name, readMode) # readMode \/ readGesture # name

\* analyzeGesture(landmarks) in the closure of invocation k.
analyzeGesture(k, landmarks) ==
    LET name == GestureBranch(landmarks)
        writes == ConfigWrites(name, closure[k].mode)
    IN  /\ Len(configQueue) + Len(writes) <= MaxPending
        /\ detectedName' = name
        /\ configQueue' = configQueue \o writes
        /\ gestureQueue' = IF WritesGesture(name, closure[k].mode, closure[k].currentGesture)
                           THEN <<name>> ELSE gestureQueue

\* One run of predictWebcam, scheduled by invocation k, with the detection
\* detectForVideo returns. The video has data while a stream is its srcObject.
predictWebcam(k, det) ==
    /\ mounted /\ k \in loops
    /\ IF videoSrc = 0
       THEN /\ requestRef' = k
            /\ UNCHANGED <<configQueue, gestureQueue, loops, results, detectedName, thrown>>
       ELSE /\ results' = det
            /\ IF det = <<>>
               THEN /\ requestRef' = k
                    /\ UNCHANGED <<configQueue, gestureQueue, loops, detectedName, thrown>>
               ELSE IF AnalyzeThrows(det[1])
               THEN /\ thrown' = thrown \cup {"predictWebcam"}
                    /\ loops' = loops \ {k}
                    /\ UNCHANGED <<configQueue, gestureQueue, requestRef, detectedName>>
               ELSE /\ analyzeGesture(k, det[1])
                    /\ requestRef' = k
                    /\ UNCHANGED <<loops, thrown>>
    /\ UNCHANGED <<config, currentGesture, active, activeQueue, visionReady, mounted,
                   sessionVars, voiceVars>>
    /\ UNCHANGED <<frameVars, audioVars, micVars>>

(* ---------------------------- voice tool calls ------------------------ *)

Min(a, b) == IF a < b THEN a ELSE b

\* A function call of a tool-call message: hasArgs is whether call.args is an
\* object, value is args.color or args.speed (Undefined when the key is
\* missing). Speed 250 is 25.0, outside the nominal range [0.1, 5.0].
CallShapes ==
    {[name |-> "setParticleColor", hasArgs |-> TRUE, value |-> v] : v \in {Str("red"), Undefined}}
    \cup {[name |-> "setParticleSpeed", hasArgs |-> TRUE, value |-> v] : v \in {Num(250), Undefined}}
    \cup {[name |-> n, hasArgs |-> FALSE, value |-> Undefined] :
            n \in {"setParticleColor", "setParticleSpeed"}}
    \cup {[name |-> "otherTool", hasArgs |-> TRUE, value |-> Undefined]}

\* A setParticleSpeed that writes the particle count.
SpeedToolWritesCount(name) ==
    CASE name = "setParticleColor" -> "color"
      [] name = "setParticleSpeed" -> "count"
      [] OTHER -> ""

\* The GlobalConfig field a tool name writes, "" for none.
ToolField(name) ==
    CASE name = "setParticleColor" -> "color"
      [] name = "setParticleSpeed" -> "speed"
      [] OTHER -> ""

\* Reading args.color of an undefined args raises a TypeError: inside the
\* updater when React runs it, and in the addLog line that follows setConfig.
CallThrows(call) == ToolField(call.name) # "" /\ ~call.hasArgs

\* The first call of the message whose handling raises, Len + 1 if none.
FirstThrowing(calls) ==
    IF \E i \in 1..Len(calls) : CallThrows(calls[i])
    THEN CHOOSE i \in 1..Len(calls) :
            /\ CallThrows(calls[i])
            /\ \A j \in 1..(i - 1) : ~CallThrows(calls[j])
    ELSE Len(calls) + 1

\* A tool write that clamps the speed to the nominal maximum 5.0.
ClampedToolUpdate(call) ==
    IF call.name = "setParticleSpeed" /\ call.value[1] = "number" /\ call.value[2] > 50
    THEN Update("speed", Num(50))
    ELSE Update(ToolField(call.name), call.value)

\* setConfig(prev => ({ ...prev, color: args.color })) and the speed twin.
ToolUpdate(call) == Update(ToolField(call.name), call.value)

RECURSIVE ToolWrites(_, _)
\* The setConfig calls of the loop over calls 1..last, in order.
ToolWrites(calls, last) ==
    IF last = 0 THEN <<>>
    ELSE ToolWrites(calls, last - 1)
         \o (IF ToolField(calls[last].name) = "" THEN <<>>
             ELSE IF CallThrows(calls[last]) THEN <<ThrowingUpdate(ToolField(calls[last].name))>>
             ELSE <<ToolUpdate(calls[last])>>)

\* onmessage of connection k with a toolCall of these function calls, which
\* get the ids nextCallId, nextCallId + 1, ...: handleToolCalls. Every response
\* carries the status 'ok' and is sent on the session sessionRef holds when
\* the loop is done.
handleToolCalls(k, calls) ==
    LET n == Len(calls)
        bad == FirstThrowing(calls)
        writes == ToolWrites(calls, Min(bad, n))
        ids == nextCallId..(nextCallId + n - 1)
    IN  /\ mounted /\ conn[k] = "open"
        /\ nextCallId + n - 1 <= MaxCalls
        /\ Len(configQueue) + Len(writes) <= MaxPending
        /\ toolCall' = calls
        /\ nextCallId' = nextCallId + n
        /\ configQueue' = configQueue \o writes
        /\ receivedActive' = IF sessionRef # 0 THEN receivedActive \cup ids ELSE receivedActive
        /\ IF bad <= n
           THEN /\ thrown' = thrown \cup {"onmessage"}
                /\ acks' = acks
           ELSE /\ thrown' = thrown
                /\ acks' = IF sessionRef # 0
                           THEN [i \in CallIds |->
                                    IF i \in ids
                                    THEN Append(acks[i], [session |-> sessionRef, status |-> "ok"])
                                    ELSE acks[i]]
                           ELSE acks
        /\ UNCHANGED <<config, currentGesture, gestureQueue, active, activeQueue,
                       visionReady, mounted, sessionVars, loopVars>>
        /\ UNCHANGED <<frameVars, audioVars, micVars>>

(* --------------------------- audio playback --------------------------- *)

Max(a, b) == IF a > b THEN a ELSE b

\* Durations of the inbound chunks (audioBuffer.duration).
ChunkDurations == {1, 2}

\* Everything but the audio playback state.
nonAudioVars == <<reactVars, visionReady, mounted, sessionVars, loopVars, thrown, voiceVars,
                  frameVars, micVars>>

\* onmessage of connection k with inline audio: playAudioChunk up to its
\* await. The cursor is raised to the context's clock before the decode.
playAudioChunk(k, dur) ==
    /\ mounted /\ conn[k] = "open"
    /\ outputAudioCtxRef # 0
    /\ ctxState[outputAudioCtxRef] # "closed"
    /\ Len(chunks) < MaxChunks
    /\ nextStartTimeRef' = Max(nextStartTimeRef, ctxTime[outputAudioCtxRef])
    /\ chunks' = Append(chunks, [ctx |-> outputAudioCtxRef, duration |-> dur,
                                 phase |-> "decoding", when |-> 0, start |-> 0])
    /\ UNCHANGED <<outputAudioCtxRef, ctxState, ctxTime, sourcesRef>>
    /\ UNCHANGED nonAudioVars

\* The chunks whose decode is pending; decodes complete in arrival order.
Decoding == {c \in 1..Len(chunks) : chunks[c].phase = "decoding"}
FirstDecoding == CHOOSE c \in Decoding : \A d \in Decoding : c <= d

\* playAudioChunk after its await: the source is created, started at the
\* cursor and added to sourcesRef, the cursor advances by the duration. A
\* source started at a time already past begins at the context's clock.
DecodeDone ==
    /\ mounted /\ Decoding # {}
    /\ LET c == FirstDecoding
           ctx == chunks[c].ctx
       IN  /\ chunks' = [chunks EXCEPT ![c] =
                            [@ EXCEPT !.phase = "scheduled",
                                      !.when = nextStartTimeRef,
                                      !.start = Max(nextStartTimeRef, ctxTime[ctx])]]
           /\ nextStartTimeRef' = nextStartTimeRef + chunks[c].duration
           /\ sourcesRef' = sourcesRef \cup {c}
    /\ UNCHANGED <<outputAudioCtxRef, ctxState, ctxTime>>
    /\ UNCHANGED nonAudioVars

\* decodeAudioData rejected: the catch logs the error.
DecodeFailed ==
    /\ mounted /\ Decoding # {}
    /\ chunks' = [chunks EXCEPT ![FirstDecoding].phase = "failed"]
    /\ UNCHANGED <<outputAudioCtxRef, ctxState, ctxTime, nextStartTimeRef, sourcesRef>>
    /\ UNCHANGED nonAudioVars

\* The 'ended' listener of the source of chunk c.
SourceEnded(c) ==
    /\ c \in sourcesRef
    /\ chunks[c].phase = "scheduled"
    /\ ctxTime[chunks[c].ctx] >= chunks[c].start + chunks[c].duration
    /\ sourcesRef' = sourcesRef \ {c}
    /\ chunks' = [chunks EXCEPT ![c].phase = "ended"]
    /\ UNCHANGED <<outputAudioCtxRef, ctxState, ctxTime, nextStartTimeRef>>
    /\ UNCHANGED nonAudioVars

\* The clock of output context k advances while the context is not closed.
AudioTick(k) ==
    /\ ctxState[k] \in {"running", "closing"}
    /\ ctxTime[k] < MaxAudioTime
    /\ ctxTime' = [ctxTime EXCEPT ![k] = @ + 1]
    /\ UNCHANGED <<outputAudioCtxRef, ctxState, nextStartTimeRef, chunks, sourcesRef>>
    /\ UNCHANGED nonAudioVars

\* The close() stopSession called on output context k settles.
CloseSettled(k) ==
    /\ ctxState[k] = "closing"
    /\ ctxState' = [ctxState EXCEPT ![k] = "closed"]
    /\ UNCHANGED audioRest
    /\ UNCHANGED nonAudioVars

(* ------------------------ ParticleScene frame pass -------------------- *)

\* Particles of the model (config.count is 2000).
NumParticles == 2
\* The last clock reading of a run, in tenths of a second.
MaxTime == 3

\* The seed useMemo draws for particle i: x, y, z in [-50, 50), the phase t in
\* [0, 100) (in twentieths), the drift (mx, my, mz) zero (in millionths).
InitialParticle(i) ==
    [x |-> 20 * i - 30, y |-> 45 - 30 * i, z |-> 5 * i, t |-> 20 * i,
     mx |-> 0, my |-> 0, mz |-> 0]

\* A seed at the ends of the range: x, y, z at -50 or 49.
BoundaryParticle(i) ==
    [x |-> IF i % 2 = 1 THEN 49 ELSE -50, y |-> IF i % 2 = 1 THEN -50 ELSE 49, z |-> -50,
     t |-> 99 * 20, mx |-> 0, my |-> 0, mz |-> 0]

\* cos and sin of a phase in twentieths, in thousandths, as triangle waves of
\* period 120 twentieths (2 pi is 125.7).
TriCos(t) ==
    LET u == t % 120
    IN  IF u <= 60 THEN 1000 - (u * 2000) \div 60 ELSE ((u - 60) * 2000) \div 60 - 1000

TriSin(t) == TriCos(t + 90)

\* drift += (target - drift) * 0.1, target in thousandths, drift in millionths
Smooth(drift, target) == drift + (target * 1000 - drift) \div 10

Abs(n) == IF n < 0 THEN 0 - n ELSE n

\* drift += (0 - drift) * speed * 0.1, speed in tenths: the step
\* drift * speed * 0.1 is rounded toward zero to the resolution of the drift.
Attract(drift, speed) ==
    LET step == (Abs(drift) \div 100) * speed
    IN  IF drift >= 0 THEN drift - step ELSE drift + step

\* config.speed as a number of tenths
SpeedOf(cfg) == cfg.speed[2]

\* The FLOAT case on the particle: the phase advances by speed * 0.5 and the
\* drift is smoothed toward the seed times the waves of the new phase.
FloatStep(p, cfg) ==
    LET t == p.t + SpeedOf(cfg)
        a == TriCos(t) + TriSin(t) \div 10
        b == TriSin(t) + TriCos(2 * t) \div 10
        c == TriCos(t)
    IN  [p EXCEPT !.t = t,
                  !.mx = Smooth(p.mx, p.x * a),
                  !.my = Smooth(p.my, p.y * b),
                  !.mz = Smooth(p.mz, p.z * c)]

\* The GATHER case on the particle: the drift is attracted to zero.
GatherStep(p, cfg) ==
    [p EXCEPT !.mx = Attract(p.mx, SpeedOf(cfg)),
              !.my = Attract(p.my, SpeedOf(cfg)),
              !.mz = Attract(p.mz, SpeedOf(cfg))]

\* A switch whose EXPLODE case zeroes the drift.
DriftResetOnExplode(p, cfg) ==
    CASE cfg.mode = "FLOAT" -> FloatStep(p, cfg)
      [] cfg.mode = "GATHER" -> GatherStep(p, cfg)
      [] cfg.mode = "EXPLODE" -> [p EXCEPT !.mx = 0, !.my = 0, !.mz = 0]
      [] OTHER -> p

\* A switch that advances the phase before it, in every mode.
PhaseInEveryMode(p, cfg) ==
    CASE cfg.mode = "FLOAT" -> FloatStep(p, cfg)
      [] cfg.mode = "GATHER" -> GatherStep([p EXCEPT !.t = @ + SpeedOf(cfg)], cfg)
      [] OTHER -> [p EXCEPT !.t = @ + SpeedOf(cfg)]

\* What the switch does to the particle: FLOAT advances the phase by
\* speed * 0.5 and smooths the drift, GATHER attracts the drift to zero.
ParticleAfter(p, cfg) ==
    CASE cfg.mode = "FLOAT" -> FloatStep(p, cfg)
      [] cfg.mode = "GATHER" -> GatherStep(p, cfg)
      [] OTHER -> p

\* A position: the formula of the regime that set it, with the inputs it
\* depends on besides the seed of particle i (clock, speed), and for RAIN the
\* Y it computed, in halves.
Pos(form, i, clock, speed, y2) ==
    [form |-> form, i |-> i, clock |-> clock, speed |-> speed, y2 |-> y2]

\* (time * fallSpeed) % 100 in halves: time * 50 * speed is clock * speed
\* halves; the remainder of JavaScript has the sign of the dividend.
JsRem(a, b) == IF a >= 0 THEN a % b ELSE 0 - ((0 - a) % b)

\* A wrap that adds 50 instead of 100.
RainHalfWrap(p, clock, speed) ==
    LET newY == 2 * p.y - JsRem(clock * speed, 200)
    IN  IF newY < -100 THEN newY + 100 ELSE newY

\* newY of the RAIN case, in halves
RainY2(p, clock, speed) ==
    LET newY == 2 * p.y - JsRem(clock * speed, 200)
    IN  IF newY < -100 THEN newY + 200 ELSE newY

\* dummy.position.set(x, newY, z) of the RAIN case: the seed's x and z in
\* units, newY in halves.
RainPos(p, y2) == [form |-> "RAIN", x |-> p.x, y2 |-> y2, z |-> p.z]

Angle(fn, arg) == [fn |-> fn, arg |-> arg]

\* The switch without a default case, on the scratch object.
SwitchDummy(d, p, i, cfg, clock) ==
    CASE cfg.mode = "FLOAT" -> [d EXCEPT !.position = Pos("FLOAT", i, clock, 0, 0)]
      [] cfg.mode = "GATHER" -> [d EXCEPT !.position = Pos("GATHER", i, clock, 0, 0)]
      [] cfg.mode = "EXPLODE" -> [d EXCEPT !.position = Pos("EXPLODE", i, clock, 0, 0)]
      [] cfg.mode = "SWIRL" ->
            [d EXCEPT !.position = Pos("SWIRL", i, clock, SpeedOf(cfg), 0),
                      !.rotation.y = Angle("angle", 2 * clock * SpeedOf(cfg) + i)]
      [] cfg.mode = "RAIN" ->
            [d EXCEPT !.position = RainPos(p, RainY2(p, clock, SpeedOf(cfg))),
                      !.scale = <<10, 50, 10>>]
      [] OTHER -> d

\* A tail that applies the size only where it resets rotation and scale.
TailSizeInSharedOnly(d, cfg, clock) ==
    IF cfg.mode # "SWIRL" /\ cfg.mode # "RAIN"
    THEN [d EXCEPT !.rotation = [x |-> Angle("sin", clock), y |-> Angle("cos", clock),
                                 z |-> Angle("zero", 0)],
                   !.scale = <<cfg.size, cfg.size, cfg.size>>]
    ELSE d

\* The shared tail after the switch: rotation and scale.
TailDummy(d, cfg, clock) ==
    LET r == IF cfg.mode # "SWIRL" /\ cfg.mode # "RAIN"
             THEN [d EXCEPT !.rotation = [x |-> Angle("sin", clock), y |-> Angle("cos", clock),
                                          z |-> Angle("zero", 0)],
                            !.scale = <<10, 10, 10>>]
             ELSE d
    IN  IF cfg.mode = "RAIN" THEN r
        ELSE [r EXCEPT !.scale = <<cfg.size, cfg.size, cfg.size>>]

RECURSIVE FramePass(_, _, _, _, _, _)
\* particles.forEach from particle i on: the particles, the scratch object and
\* the matrices after the pass.
FramePass(ps, i, d, ms, cfg, clock) ==
    IF i > Len(ps) THEN [particles |-> ps, dummy |-> d, matrices |-> ms]
    ELSE LET d2 == TailDummy(SwitchDummy(d, ps[i], i, cfg, clock), cfg, clock)
         IN  FramePass([ps EXCEPT ![i] = ParticleAfter(ps[i], cfg)], i + 1, d2,
                       [ms EXCEPT ![i] = d2], cfg, clock)

\* The useFrame callback, one render frame later on the clock.
useFrame ==
    /\ mounted
    /\ time < MaxTime
    /\ time' = time + 1
    /\ frameMode' = config.mode
    /\ LET after == FramePass(particles, 1, dummy, matrices, config, time + 1)
       IN  /\ particles' = after.particles
           /\ dummy' = after.dummy
           /\ matrices' = after.matrices
    /\ UNCHANGED <<reactVars, visionReady, mounted, sessionVars, loopVars, thrown, voiceVars,
                   audioVars, micVars>>

\* The configs ParticleScene is rendered with: the five modes and a mode
\* value outside the enumeration.
FrameConfigs ==
    {[InitialConfig EXCEPT !.mode = m, !.speed = Num(sp[1]), !.size = sp[2]] :
        m \in Modes \cup {"WARP"}, sp \in {<<10, 10>>, <<250, 5>>}}

\* The parent renders ParticleScene with another config.
SetProps ==
    /\ mounted
    /\ config' \in FrameConfigs \ {config}
    /\ UNCHANGED <<configQueue, currentGesture, gestureQueue, active, activeQueue,
                   visionReady, mounted, sessionVars, loopVars, thrown, voiceVars, frameVars,
                   audioVars, micVars>>

(* ----------------------------- specification -------------------------- *)

vars == <<reactVars, visionReady, mounted, sessionVars, loopVars, thrown, voiceVars, frameVars,
          audioVars, micVars>>

\* The scratch Object3D as constructed, the particles of useMemo, no matrix
\* written yet.
InitialDummy ==
    [position |-> Pos("origin", 0, 0, 0, 0),
     rotation |-> [x |-> Angle("zero", 0), y |-> Angle("zero", 0), z |-> Angle("zero", 0)],
     scale |-> <<10, 10, 10>>]

FrameInit ==
    /\ particles = [i \in 1..NumParticles |-> InitialParticle(i)]
    /\ dummy = InitialDummy
    /\ matrices = [i \in 1..NumParticles |-> InitialDummy]
    /\ time = 0
    /\ frameMode = ""

\* No audio context yet, the cursor at 0, no source.
AudioInit ==
    /\ outputAudioCtxRef = 0
    /\ ctxState = [k \in Sessions |-> "none"]
    /\ ctxTime = [k \in Sessions |-> 0]
    /\ nextStartTimeRef = 0
    /\ chunks = <<>>
    /\ sourcesRef = {}

\* The microphone on, no input context, no processor, no timer, no chunk.
MicInit ==
    /\ isMicOn = TRUE
    /\ isMicOnRef = TRUE
    /\ inputAudioCtxRef = 0
    /\ inCtxState = [k \in Sessions |-> "none"]
    /\ processorRef = 0
    /\ processors = {}
    /\ micTimers = {}
    /\ micChunks = {}

Init ==
    /\ config = InitialConfig
    /\ configQueue = <<>>
    /\ currentGesture = "None"
    /\ gestureQueue = <<>>
    /\ active = FALSE
    /\ activeQueue = <<>>
    /\ visionReady = FALSE
    /\ mounted = TRUE
    /\ nextSession = 0
    /\ closure = [k \in Sessions |-> [mode |-> "FLOAT", currentGesture |-> "None", active |-> FALSE]]
    /\ conn = [k \in Sessions |-> "idle"]
    /\ sessionRef = 0
    /\ streamRef = 0
    /\ liveStreams = {}
    /\ videoSrc = 0
    /\ playPending = {}
    /\ loops = {}
    /\ requestRef = 0
    /\ results = <<>>
    /\ detectedName = ""
    /\ thrown = {}
    /\ toolCall = <<>>
    /\ nextCallId = 1
    /\ acks = [i \in CallIds |-> <<>>]
    /\ receivedActive = {}
    /\ FrameInit
    /\ AudioInit
    /\ MicInit

\* The state once the first connectToGemini has run to the end: vision ready,
\* stream captured, video playing, connection open, active rendered, the timer
\* of onopen pending.
InitRunning ==
    /\ config = InitialConfig
    /\ configQueue = <<>>
    /\ currentGesture = "None"
    /\ gestureQueue = <<>>
    /\ active = TRUE
    /\ activeQueue = <<>>
    /\ visionReady = TRUE
    /\ mounted = TRUE
    /\ nextSession = 1
    /\ closure = [k \in Sessions |-> [mode |-> "FLOAT", currentGesture |-> "None", active |-> FALSE]]
    /\ conn = [k \in Sessions |-> IF k = 1 THEN "open" ELSE "idle"]
    /\ sessionRef = 1
    /\ streamRef = 1
    /\ liveStreams = {1}
    /\ videoSrc = 1
    /\ playPending = {}
    /\ loops = {1}
    /\ requestRef = 1
    /\ results = <<>>
    /\ detectedName = ""
    /\ thrown = {}
    /\ toolCall = <<>>
    /\ nextCallId = 1
    /\ acks = [i \in CallIds |-> <<>>]
    /\ receivedActive = {}
    /\ FrameInit
    /\ outputAudioCtxRef = 1
    /\ ctxState = [k \in Sessions |-> IF k = 1 THEN "running" ELSE "none"]
    /\ ctxTime = [k \in Sessions |-> 0]
    /\ nextStartTimeRef = 0
    /\ chunks = <<>>
    /\ sourcesRef = {}
    /\ isMicOn = TRUE
    /\ isMicOnRef = TRUE
    /\ inputAudioCtxRef = 1
    /\ inCtxState = [k \in Sessions |-> IF k = 1 THEN "running" ELSE "none"]
    /\ processorRef = 0
    /\ processors = {}
    /\ micTimers = {1}
    /\ micChunks = {}

\* Messages of one or two function calls.
Messages == UNION {[1..n -> CallShapes] : n \in 1..2}

\* Messages of one function call that names a tool of the app and carries
\* its argument.
SpokenCommands == [1..1 -> {c \in CallShapes : c.hasArgs /\ c.value # Undefined}]

\* The whole program.
NextAll ==
    \/ InitVision
    \/ Render
    \/ ConnectStart
    \/ \E k \in Sessions : ConnectMedia(k)
    \/ \E k \in Sessions : ConnectFail(k)
    \/ \E k \in Sessions : PlayResolved(k)
    \/ \E k \in Sessions : OnOpen(k)
    \/ \E k \in Sessions : OnClose(k)
    \/ \E k \in Sessions, det \in SessionDetections : predictWebcam(k, det)
    \/ \E k \in Sessions, calls \in Messages : handleToolCalls(k, calls)

SpecAll == Init /\ [][NextAll]_vars

\* A running session: video frames, spoken commands and renders.
Next ==
    \/ Render
    \/ \E k \in Sessions, det \in SessionDetections : predictWebcam(k, det)
    \/ \E k \in Sessions, calls \in SpokenCommands : handleToolCalls(k, calls)

Spec == InitRunning /\ [][Next]_vars

\* The voice channel of a running session, over every message.
NextTools ==
    \/ Render
    \/ \E k \in Sessions, calls \in Messages : handleToolCalls(k, calls)

SpecTools == InitRunning /\ [][NextTools]_vars

\* Detections of the channel runs: a PINCH hand, a PEACE hand and an open palm.
ChannelDetections ==
    {<<Hand(<<3, 3>>, FALSE, FALSE, FALSE, FALSE, 21)>>,
     <<Hand(<<3, 4>>, TRUE, TRUE, FALSE, FALSE, 21)>>,
     <<Hand(<<3, 4>>, TRUE, TRUE, TRUE, TRUE, 21)>>}

\* The three channels of a running session: video frames, spoken commands
\* and the frame pass of ParticleScene on the rendered config.
NextChannels ==
    \/ Render
    \/ \E k \in Sessions, det \in ChannelDetections : predictWebcam(k, det)
    \/ \E k \in Sessions, calls \in SpokenCommands : handleToolCalls(k, calls)
    \/ useFrame

SpecChannels == InitRunning /\ [][NextChannels]_vars

\* Detections of the lifecycle runs: no hand, and a PEACE hand.
LifecycleDetections == {<<>>, <<Hand(<<3, 4>>, TRUE, TRUE, FALSE, FALSE, 21)>>}

\* The session lifecycle with the gesture loop, from construction.
NextLifecycle ==
    \/ InitVision
    \/ Render
    \/ ConnectStart
    \/ \E k \in Sessions : ConnectMedia(k)
    \/ \E k \in Sessions : ConnectFail(k)
    \/ \E k \in Sessions : PlayResolved(k)
    \/ \E k \in Sessions : OnOpen(k)
    \/ \E k \in Sessions : OnError(k)
    \/ \E k \in Sessions : OnClose(k)
    \/ \E k \in Sessions, det \in LifecycleDetections : predictWebcam(k, det)

SpecLifecycle == Init /\ [][NextLifecycle]_vars

\* Inbound speech of a running session, until the connection closes.
NextAudio ==
    \/ Render
    \/ \E k \in Sessions, dur \in ChunkDurations : playAudioChunk(k, dur)
    \/ DecodeDone
    \/ DecodeFailed
    \/ \E c \in 1..MaxChunks : SourceEnded(c)
    \/ \E k \in Sessions : AudioTick(k)
    \/ \E k \in Sessions : CloseSettled(k)
    \/ \E k \in Sessions : OnClose(k)

SpecAudio == InitRunning /\ [][NextAudio]_vars

\* The gesture channel of a running session, over every detection.
NextClassify ==
    \/ Render
    \/ \E k \in Sessions, det \in Detections : predictWebcam(k, det)

SpecClassify == InitRunning /\ [][NextClassify]_vars

\* The voice channel over the session lifecycle, from construction.
NextVoice ==
    \/ InitVision
    \/ Render
    \/ ConnectStart
    \/ \E k \in Sessions : ConnectMedia(k)
    \/ \E k \in Sessions : ConnectFail(k)
    \/ \E k \in Sessions : OnOpen(k)
    \/ \E k \in Sessions : OnClose(k)
    \/ \E k \in Sessions, calls \in Messages : handleToolCalls(k, calls)

SpecVoice == Init /\ [][NextVoice]_vars

\* ParticleScene alone, rendered with any config, over two draws of the seeds.
InitFrame ==
    /\ config \in FrameConfigs
    /\ configQueue = <<>>
    /\ currentGesture = "None"
    /\ gestureQueue = <<>>
    /\ active = FALSE
    /\ activeQueue = <<>>
    /\ visionReady = FALSE
    /\ mounted = TRUE
    /\ nextSession = 0
    /\ closure = [k \in Sessions |-> [mode |-> "FLOAT", currentGesture |-> "None", active |-> FALSE]]
    /\ conn = [k \in Sessions |-> "idle"]
    /\ sessionRef = 0
    /\ streamRef = 0
    /\ liveStreams = {}
    /\ videoSrc = 0
    /\ playPending = {}
    /\ loops = {}
    /\ requestRef = 0
    /\ results = <<>>
    /\ detectedName = ""
    /\ thrown = {}
    /\ toolCall = <<>>
    /\ nextCallId = 1
    /\ acks = [i \in CallIds |-> <<>>]
    /\ receivedActive = {}
    /\ particles \in {[i \in 1..NumParticles |-> InitialParticle(i)],
                      [i \in 1..NumParticles |-> BoundaryParticle(i)]}
    /\ dummy = InitialDummy
    /\ matrices = [i \in 1..NumParticles |-> InitialDummy]
    /\ time = 0
    /\ frameMode = ""
    /\ AudioInit
    /\ MicInit

NextFrame ==
    \/ useFrame
    \/ SetProps

SpecFrame == InitFrame /\ [][NextFrame]_vars

\* The microphone of a running session, through its close, a second session
\* and the unmount. The input contexts stay in closing, where a processor
\* still delivers its events.
NextMic ==
    \/ Render
    \/ ConnectStart
    \/ \E k \in Sessions : ConnectMedia(k)
    \/ \E k \in Sessions : OnOpen(k)
    \/ \E k \in Sessions : OnClose(k)
    \/ Unmount
    \/ \E k \in Sessions : startAudioProcessing(k)
    \/ toggleMic
    \/ \E p \in processors : onaudioprocess(p)
    \/ \E c \in micChunks : MicSend(c)

SpecMic == InitRunning /\ [][NextMic]_vars

\* The calls of stopSession over the session lifecycle, from construction.
NextStop ==
    \/ InitVision
    \/ Render
    \/ ConnectStart
    \/ \E k \in Sessions : ConnectMedia(k)
    \/ \E k \in Sessions : ConnectFail(k)
    \/ \E k \in Sessions : PlayResolved(k)
    \/ \E k \in Sessions : OnOpen(k)
    \/ \E k \in Sessions : OnClose(k)
    \/ \E k \in Sessions : startAudioProcessing(k)
    \/ \E k \in Sessions : InputCloseSettled(k)
    \/ Unmount

SpecStop == Init /\ [][NextStop]_vars

(* ------------------------------- claims ------------------------------- *)

\* GlobalConfig with every queued write applied.
EffectiveConfig == ApplyAll(config, configQueue)

\* The rows of the gesture contract in priority order: the pinch test and the
\* (index, middle, ring, pinky) patterns each row accepts.
AllFingers == {<<i, m, r, p>> : i \in BOOLEAN, m \in BOOLEAN, r \in BOOLEAN, p \in BOOLEAN}

PrecedenceRows ==
    <<[name |-> N_PINCH, pinch |-> {TRUE}, fingers |-> AllFingers],
      [name |-> N_FIST, pinch |-> BOOLEAN, fingers |-> {<<FALSE, FALSE, FALSE, FALSE>>}],
      [name |-> N_PEACE, pinch |-> BOOLEAN, fingers |-> {<<TRUE, TRUE, FALSE, FALSE>>}],
      [name |-> N_POINT, pinch |-> BOOLEAN, fingers |-> {<<TRUE, FALSE, FALSE, FALSE>>}],
      [name |-> N_OPEN, pinch |-> BOOLEAN, fingers |-> {<<TRUE, TRUE, TRUE, TRUE>>}],
      [name |-> N_NEUTRAL, pinch |-> BOOLEAN, fingers |-> AllFingers]>>

RowMatches(k, pinch, f) == pinch \in PrecedenceRows[k].pinch /\ f \in PrecedenceRows[k].fingers

FirstMatch(pinch, f) ==
    LET k == CHOOSE k \in 1..Len(PrecedenceRows) :
                /\ RowMatches(k, pinch, f)
                /\ \A j \in 1..(k - 1) : ~RowMatches(j, pinch, f)
    IN  PrecedenceRows[k].name

\* Thumb tip (landmark 4) within 0.05 of the index tip (landmark 8).
HandPinch(h) == (h[5].x - h[9].x) * (h[5].x - h[9].x) + (h[5].y - h[9].y) * (h[5].y - h[9].y) < 25

\* Tips 8, 12, 16, 20 above the bases 5, 9, 13, 17.
HandFingers(h) == <<h[9].y < h[6].y, h[13].y < h[10].y, h[17].y < h[14].y, h[21].y < h[18].y>>

FullHandSeen == results # <<>> /\ Len(results[1]) = 21

\* C1: the label of every 21-point landmark set is the first matching row of
\* PINCH, FIST, PEACE, POINT, OPEN_PALM, NEUTRAL; a pinch wins over every
\* finger pattern.
C1_FirstMatchWins ==
    FullHandSeen => detectedName = FirstMatch(HandPinch(results[1]), HandFingers(results[1]))

\* A pinching fist has been classified, as PINCH.
C1_PinchingFistSeen ==
    /\ FullHandSeen
    /\ HandPinch(results[1])
    /\ HandFingers(results[1]) = <<FALSE, FALSE, FALSE, FALSE>>
    /\ detectedName = N_PINCH

\* The mode the contract gives each gesture.
ClaimedMode(name) ==
    CASE name = N_FIST -> "GATHER"
      [] name = N_PEACE -> "RAIN"
      [] name = N_POINT -> "SWIRL"
      [] name = N_OPEN -> "EXPLODE"
      [] name = N_NEUTRAL -> "FLOAT"

\* C2: once a frame classified FIST, PEACE, POINT, OPEN_PALM or NEUTRAL has
\* been processed, GlobalConfig.mode is GATHER, RAIN, SWIRL, EXPLODE or FLOAT.
C2_ModeFollowsGesture ==
    (mounted /\ detectedName \in GestureNames \ {N_PINCH})
        => EffectiveConfig.mode = ClaimedMode(detectedName)

\* C3: a mode write is issued only when the detected mode differs from the
\* mode currently applied; a held gesture issues no further mode write.
C3_Debounce ==
    [][\A i \in (Len(configQueue) + 1)..Len(configQueue') :
          configQueue'[i].field = "mode" => configQueue'[i].value # EffectiveConfig.mode]_vars

\* The value the last queued write to field f gives it, old if none does.
LastWrite(queue, f, old) ==
    IF \E i \in 1..Len(queue) : queue[i].field = f
    THEN LET last == CHOOSE i \in 1..Len(queue) :
                        /\ queue[i].field = f
                        /\ \A j \in (i + 1)..Len(queue) : queue[j].field # f
         IN  queue[last].value
    ELSE old

\* C4: the render that follows writes to different GlobalConfig fields gives
\* every field the value last written to it, in either order of the writes:
\* no write puts an older value back into another field.
C4_BothWritesObserved ==
    [][(mounted' /\ configQueue # <<>> /\ configQueue' = <<>>)
          => \A f \in DOMAIN config : config'[f] = LastWrite(configQueue, f, config[f])]_vars

\* A gesture write and a voice write to different fields wait for the same render.
C4_GestureAndVoicePending ==
    /\ mounted /\ ~QueueThrows(configQueue)
    /\ \E i, j \in 1..Len(configQueue) :
          /\ configQueue[i].field \in {"mode", "size"}
          /\ configQueue[j].field \in {"color", "speed"}

\* A call that carries the argument its tool requires (or needs none).
WellFormed(call) == ToolField(call.name) = "" \/ (call.hasArgs /\ call.value # Undefined)

RECURSIVE ClaimedAfter(_, _, _)
\* GlobalConfig after calls 1..n by the contract: color and speed set to the
\* values given, as they are.
ClaimedAfter(cfg, calls, n) ==
    IF n = 0 THEN cfg
    ELSE LET before == ClaimedAfter(cfg, calls, n - 1)
         IN  CASE calls[n].name = "setParticleColor" -> [before EXCEPT !.color = calls[n].value]
               [] calls[n].name = "setParticleSpeed" -> [before EXCEPT !.speed = calls[n].value]
               [] OTHER -> before

ToolCallHandled == nextCallId' > nextCallId

\* C5: setParticleColor(color) sets color to the string given and
\* setParticleSpeed(speed) sets speed to the number given, unclamped, and
\* every other field keeps its value.
C5_ToolSetsExactly ==
    [][(ToolCallHandled /\ \A i \in 1..Len(toolCall') : WellFormed(toolCall'[i]))
          => EffectiveConfig' = ClaimedAfter(EffectiveConfig, toolCall', Len(toolCall'))]_vars

\* Speed 25.0 and the color red have been set by voice and rendered.
C5_VoiceValuesRendered ==
    /\ mounted
    /\ config = [InitialConfig EXCEPT !.color = Str("red"), !.speed = Num(250)]

\* C6: every function call received while a session is active is answered
\* by exactly one response carrying its id.
C6_EveryCallAcked == \A id \in receivedActive : Len(acks[id]) = 1

\* A call whose required argument is missing.
MissingArg(call) == ToolField(call.name) # "" /\ (~call.hasArgs \/ call.value = Undefined)

\* C7: a call whose required argument is missing does not throw, is answered
\* with a non-ok status, and leaves GlobalConfig as it was.
C7_MissingArgRejected ==
    [][(ToolCallHandled /\ Len(toolCall') = 1 /\ MissingArg(toolCall'[1]))
          => /\ thrown' = thrown
             /\ EffectiveConfig' = EffectiveConfig
             /\ \A i \in 1..Len(acks'[nextCallId]) : acks'[nextCallId][i].status # "ok"]_vars

\* C8: a tool call handled while sessionRef is null raises no error, sends no
\* response and leaves GlobalConfig unchanged (stated for calls that carry
\* their arguments).
C8_NoSessionNoOp ==
    [][(ToolCallHandled /\ sessionRef = 0 /\ \A i \in 1..Len(toolCall') : WellFormed(toolCall'[i]))
          => /\ thrown' = thrown
             /\ acks' = acks
             /\ configQueue' = configQueue]_vars

\* C9: a frame executed with a mode outside the five raises an error and
\* writes no transform.
C9_UnknownModeFailsFast ==
    [][(time' > time /\ config.mode \notin Modes)
          => /\ "useFrame" \in thrown'
             /\ matrices' = matrices]_vars

\* C10: a detection of a hand with fewer than 21 landmarks raises no error and
\* leaves the classification loop scheduled.
C10_ShortHandSkipped ==
    (results # <<>> /\ Len(results[1]) < 21)
        => ("predictWebcam" \notin thrown /\ loops # {})

\* C11: once every session started has been stopped (closed, or failed to
\* connect), no predictWebcam callback is left scheduled.
C11_LoopHaltedAfterStop ==
    (nextSession > 0 /\ \A k \in 1..nextSession : conn[k] \in {"closed", "failed"})
        => loops = {}

\* A step in which stopSession ran: a connection closed or a connect failed.
StopSessionReturned ==
    \E k \in Sessions : conn'[k] # conn[k] /\ conn'[k] \in {"closed", "failed"}

\* C12: when stopSession returns the captured stream is stopped and its
\* reference cleared and no playback source is left in the set, and while the
\* session is stopped no chunk is added to the set.
C12_CaptureAndPlaybackReleased ==
    [][/\ StopSessionReturned
            => (streamRef' = 0 /\ liveStreams' = {} /\ sourcesRef' = {})
       /\ sessionRef = 0 => sourcesRef' \subseteq sourcesRef]_vars

\* C13: when onerror or onclose fires on an established session, the session
\* reference is cleared, active is set to false and GlobalConfig is untouched.
C13_FailureGoesInactive ==
    [][\A k \in Sessions :
          (conn[k] = "open" /\ conn'[k] \in {"errored", "closed"})
              => /\ sessionRef' = 0
                 /\ activeQueue' = <<FALSE>>
                 /\ config' = config /\ configQueue' = configQueue]_vars

\* The drift of a particle, and the targets its FLOAT case smooths toward
\* (seed times the waves of the advanced phase, in thousandths).
DriftOf(p) == <<p.mx, p.my, p.mz>>
FloatTargets(p, cfg) ==
    LET t == p.t + SpeedOf(cfg)
    IN  <<p.x * (TriCos(t) + TriSin(t) \div 10),
          p.y * (TriSin(t) + TriCos(2 * t) \div 10),
          p.z * TriCos(t)>>

\* d2 is d after drift += (target - drift) * 0.1, to the resolution of the drift.
SmoothedToward(d, d2, target) ==
    LET gap == target * 1000 - d
    IN  gap - 10 * (d2 - d) \in 0..9

\* d2 is d after drift += (0 - drift) * speed * 0.1: a step toward zero of
\* drift * speed * 0.1, to the resolution of the drift.
AttractedBy(d, d2, speed) ==
    /\ Abs(d - d2) = (Abs(d) \div 100) * speed
    /\ d > 0 => d2 <= d
    /\ d < 0 => d2 >= d

\* C14: a write to config (the mode included) leaves every drift unchanged,
\* frames outside FLOAT and GATHER leave it unchanged, and FLOAT and GATHER
\* frames change it by their smoothing step only.
C14_DriftContinuity ==
    [][\A i \in 1..NumParticles :
          LET d == DriftOf(particles[i])
              d2 == DriftOf(particles'[i])
          IN  /\ time' = time => d2 = d
              /\ (time' > time /\ config.mode \notin {"FLOAT", "GATHER"}) => d2 = d
              /\ (time' > time /\ config.mode = "FLOAT")
                    => \A c \in 1..3 :
                          SmoothedToward(d[c], d2[c], FloatTargets(particles[i], config)[c])
              /\ (time' > time /\ config.mode = "GATHER")
                    => \A c \in 1..3 : AttractedBy(d[c], d2[c], SpeedOf(config))]_vars

\* C14 witness: a FLOAT frame has moved the drift and the mode has been
\* switched since.
C14_SwitchWithDrift ==
    /\ frameMode = "FLOAT" /\ config.mode \in Modes \ {"FLOAT"}
    /\ \E i \in 1..NumParticles : particles[i].mx # 0

\* C15: a FLOAT frame advances every phase by speed * 0.5 (a strict increase),
\* every other frame and every config write leave it unchanged.
C15_PhaseAdvancesInFloat ==
    [][\A i \in 1..NumParticles :
          IF time' > time /\ config.mode = "FLOAT"
          THEN /\ particles'[i].t = particles[i].t + SpeedOf(config)
               /\ particles'[i].t > particles[i].t
          ELSE particles'[i].t = particles[i].t]_vars

\* C15 witness: the phase has advanced and the last frame ran in another mode.
C15_PhaseHeldAfterFloat ==
    /\ frameMode \in Modes \ {"FLOAT"}
    /\ particles[1].t \notin {InitialParticle(1).t, BoundaryParticle(1).t}

\* C16: the transform written for a particle is the one a scratch object as
\* constructed yields from the seed, the index, the clock and the config of
\* the frame, whatever ran before.
C16_TransformFromInputsOnly ==
    [][(time' > time /\ config.mode \in Modes)
          => \A i \in 1..NumParticles :
                matrices'[i] = TailDummy(SwitchDummy(InitialDummy, particles[i], i, config, time'),
                                         config, time')]_vars

\* C17: a RAIN frame writes the seed's x and z, and a Y within [-50, 50] that
\* is y - ((time * 50 * speed) mod 100), or that plus exactly 100 (in halves).
C17_RainWrapsBy100 ==
    [][(time' > time /\ config.mode = "RAIN" /\ SpeedOf(config) > 0)
          => \A i \in 1..NumParticles :
                LET pos == matrices'[i].position
                    fallen == 2 * particles[i].y - ((time' * SpeedOf(config)) % 200)
                IN  /\ pos.form = "RAIN"
                    /\ pos.x = particles[i].x /\ pos.z = particles[i].z
                    /\ pos.y2 >= -100 /\ pos.y2 <= 100
                    /\ pos.y2 \in {fallen, fallen + 200}]_vars

\* C17 witness: a RAIN frame has wrapped one particle and not the other.
C17_WrappedAndUnwrapped ==
    /\ frameMode = "RAIN" /\ config.mode = "RAIN"
    /\ \E i, j \in 1..NumParticles :
          LET fall == (time * SpeedOf(config)) % 200
          IN  /\ matrices[i].position.y2 = 2 * particles[i].y - fall + 200
              /\ matrices[j].position.y2 = 2 * particles[j].y - fall

\* C18: a GATHER frame with speed > 0 never grows a drift component and
\* strictly shrinks every one above the resolution of the step.
C18_GatherShrinksDrift ==
    [][(time' > time /\ config.mode = "GATHER" /\ SpeedOf(config) > 0)
          => \A i \in 1..NumParticles : \A c \in 1..3 :
                LET d == DriftOf(particles[i])[c]
                    d2 == DriftOf(particles'[i])[c]
                IN  /\ Abs(d2) <= Abs(d)
                    /\ Abs(d) >= 100 => Abs(d2) < Abs(d)]_vars

\* C19: every frame writes the scale (size, size, size) in FLOAT, GATHER,
\* EXPLODE and SWIRL and (1, 5, 1) in RAIN.
C19_ScalePerMode ==
    [][(time' > time /\ config.mode \in Modes)
          => \A i \in 1..NumParticles :
                matrices'[i].scale = IF config.mode = "RAIN" THEN <<10, 50, 10>>
                                     ELSE <<config.size, config.size, config.size>>]_vars

\* C19 witness: a RAIN frame with size 0.5 configured, right after a frame of
\* a mode with the shared tail (RAIN keeps the rotation of that frame).
C19_RainAfterSharedTail ==
    /\ frameMode = "RAIN" /\ config.mode = "RAIN" /\ config.size = 5
    /\ time >= 2
    /\ matrices[1].rotation.x = Angle("sin", time - 1)
    /\ matrices[1].scale = <<10, 50, 10>>

\* The chunks whose source has been started.
Started == {c \in 1..Len(chunks) : chunks[c].phase \in {"scheduled", "ended"}}

\* C20: of two chunks played on one context, the one received later starts no
\* earlier than the end of the one received before.
C20_GaplessSequential ==
    \A i, j \in Started :
        (i < j /\ chunks[i].ctx = chunks[j].ctx)
            => chunks[j].start >= chunks[i].start + chunks[i].duration

\* A step of analyzeGesture that queued a setConfig.
GestureWrote == Len(configQueue') > Len(configQueue) /\ nextCallId' = nextCallId

\* C21: size is 0.5 or 1.0; a frame classified PINCH sets it to 0.5 and
\* leaves the other fields, a frame classified OPEN_PALM sets it to 1.0, and
\* no other step (frame, voice command, render) changes it.
C21_SizeFollowsPinchAndPalm ==
    [][/\ EffectiveConfig'.size \in {5, 10}
       /\ (GestureWrote /\ detectedName' = N_PINCH)
             => EffectiveConfig' = [EffectiveConfig EXCEPT !.size = 5]
       /\ (GestureWrote /\ detectedName' = N_OPEN) => EffectiveConfig'.size = 10
       /\ ~(GestureWrote /\ detectedName' \in {N_PINCH, N_OPEN})
             => EffectiveConfig'.size = EffectiveConfig.size]_vars

\* C21 witness: the size is 0.5 after a PINCH, a voice command has been
\* rendered since and the last frame was classified FIST, PEACE or POINT.
C21_PinchHeldThroughOthers ==
    /\ config.size = 5 /\ configQueue = <<>>
    /\ detectedName \in {N_FIST, N_PEACE, N_POINT}
    /\ config.mode # "FLOAT"
    /\ config.color = Str("red")

\* The writes a step adds to the queue of setConfig updaters.
NewWrites == SubSeq(configQueue', Len(configQueue) + 1, Len(configQueue'))

\* The seeds useMemo drew for the particles.
Seeds(ps) == [i \in 1..Len(ps) |-> <<ps[i].x, ps[i].y, ps[i].z>>]

\* C22: a gesture frame writes only mode and size, a tool call writes only
\* color and speed, the frame pass writes no GlobalConfig field; count stays
\* 2000 and the particles keep the seeds they were built with.
C22_ChannelSeparation ==
    [][/\ GestureWrote =>
            /\ \A i \in 1..Len(NewWrites) : NewWrites[i].field \in {"mode", "size"}
            /\ EffectiveConfig'.color = EffectiveConfig.color
            /\ EffectiveConfig'.speed = EffectiveConfig.speed
       /\ nextCallId' > nextCallId =>
            /\ Len(configQueue') > Len(configQueue)
            /\ \A i \in 1..Len(NewWrites) : NewWrites[i].field \in {"color", "speed"}
            /\ EffectiveConfig'.mode = EffectiveConfig.mode
            /\ EffectiveConfig'.size = EffectiveConfig.size
       /\ time' > time => config' = config /\ configQueue' = configQueue
       /\ EffectiveConfig'.count = 2000 /\ config'.count = 2000
       /\ Seeds(particles') = Seeds(particles)]_vars

\* C22 witness: a pinch, a spoken color, a spoken speed and a PEACE hand have
\* been rendered and a frame has drawn the result.
C22_AllChannelsActed ==
    /\ config.size = 5 /\ config.mode = "RAIN"
    /\ config.color = Str("red") /\ config.speed = Num(250)
    /\ config.count = 2000
    /\ frameMode = "RAIN" /\ time >= 2

\* C23: at most one connection being established or open, at most one
\* captured stream with live tracks and at most one scheduled predictWebcam.
C23_SingleSession ==
    /\ Cardinality({k \in Sessions : conn[k] \in {"media", "connecting", "open"}}) <= 1
    /\ Cardinality(liveStreams) <= 1
    /\ Cardinality(loops) <= 1

\* C24: a microphone chunk is sent only on the session that sessionRef held
\* both when the chunk was captured and when the send ran, and never when it
\* was captured with the microphone off.
C24_SentOnlyToCurrentSession ==
    \A c \in micChunks :
        c.phase = "sent" =>
            /\ c.target # 0
            /\ c.target = c.captured
            /\ c.atSend = c.captured
            /\ ~c.muted

\* C24 witness: one chunk was sent, one captured for a session that did open
\* was dropped because sessionRef had moved on, and one was captured muted.
C24_SentDroppedAndMuted ==
    /\ \E c \in micChunks : c.phase = "sent"
    /\ \E c \in micChunks :
            c.phase = "dropped" /\ conn[c.captured] = "open" /\ c.atSend # c.captured
    /\ \E c \in micChunks : c.phase = "skipped" /\ c.muted /\ c.captured # 0

\* A step that calls stopSession: a connection closes, a connect fails, or the
\* component unmounts.
StopStep ==
    \/ \E k \in Sessions : conn'[k] # conn[k] /\ conn'[k] \in {"closed", "failed"}
    \/ mounted /\ ~mounted'

\* The states another stopSession leaves as they are.
StopFixed ==
    /\ sessionRef = 0 /\ streamRef = 0 /\ processorRef = 0
    /\ activeQueue = <<FALSE>>
    /\ videoSrc = 0 /\ playPending = {} /\ requestRef \notin loops
    /\ \A p \in processors : p.id # 0
    /\ outputAudioCtxRef # 0 => ctxState[outputAudioCtxRef] # "running"
    /\ inputAudioCtxRef # 0 => inCtxState[inputAudioCtxRef] # "running"

\* C25: every call of stopSession, in whatever state, raises nothing and ends
\* with the session, stream and processor references null and active set to
\* false, in a state a further call would not change.
C25_StopIdempotent ==
    [][StopStep => (thrown' = thrown /\ StopFixed')]_vars

\* C25 witness: the connection was opened and closed, the processor of its
\* timer was set up, and the unmount has called stopSession once more.
C25_StoppedTwice ==
    /\ ~mounted /\ conn[1] = "closed"
    /\ micTimers = {} /\ inCtxState[1] = "closing"
    /\ sessionRef = 0 /\ streamRef = 0 /\ processorRef = 0
    /\ activeQueue = <<FALSE>>

=============================================================================
